---- MODULE Spec2Model ----
(***************************************************************************)
(* FreeKassaApi (freekassa/api.py): the signing functions, the parameter   *)
(* maps of the facade operations, send_request, and the payment-link       *)
(* builder.                                                                *)
(*                                                                         *)
(* A Python string is a sequence of one-character strings; a Python value  *)
(* is a str or an int (PyStr, PyInt).  An MD5 hex digest is one opaque token   *)
(* that names the hashed string, so the hash is injective on its input.    *)
(* All characters used are ASCII, where .encode('utf-8') is byte for byte. *)
(***************************************************************************)
EXTENDS Integers, Sequences, FiniteSets, TLC

VARIABLES creds, ctor, stacks, logs, wires

vars == <<creds, ctor, stacks, logs, wires>>

(* Largest integer drawn as an input (credentials and per-call fields). *)
MaxNum == 11

-----------------------------------------------------------------------------
(* Python values and builtins *)

PyStr(cs) == [t |-> "str", s |-> cs, n |-> 0]
PyInt(k) == [t |-> "int", s |-> <<>>, n |-> k]

Digit(d) == <<"0", "1", "2", "3", "4", "5", "6", "7", "8", "9">>[d + 1]

RECURSIVE Decimal(_)
Decimal(k) ==
    IF k < 0 THEN <<"-">> \o Decimal(-k)
    ELSE IF k < 10 THEN <<Digit(k)>>
    ELSE Decimal(k \div 10) \o <<Digit(k % 10)>>

(* str(v) *)
str(v) == IF v.t = "str" THEN v.s ELSE Decimal(v.n)

NoValue == PyStr(<<>>)
Return(v) == [exc |-> "", val |-> v]
Raise(e) == [exc |-> e, val |-> NoValue]

(* a + b : concatenation of two str, the sum of two int, TypeError otherwise *)
Add(a, b) ==
    IF a.t = "str" /\ b.t = "str" THEN Return(PyStr(a.s \o b.s))
    ELSE IF a.t = "int" /\ b.t = "int" THEN Return(PyInt(a.n + b.n))
    ELSE Raise("TypeError")

(* sep.join(params) : TypeError unless every item is a str *)
RECURSIVE Concat(_, _)
Concat(sep, items) ==
    IF Len(items) = 0 THEN <<>>
    ELSE IF Len(items) = 1 THEN items[1]
    ELSE items[1] \o sep \o Concat(sep, Tail(items))

Join(sep, params) ==
    IF \E i \in 1..Len(params) : params[i].t # "str" THEN Raise("TypeError")
    ELSE Return(PyStr(Concat(sep, [i \in 1..Len(params) |-> params[i].s])))

(* hashlib.md5(b).hexdigest() *)
RECURSIVE Flat(_)
Flat(cs) == IF Len(cs) = 0 THEN "" ELSE cs[1] \o Flat(Tail(cs))

Md5Hex(cs) == <<"md5(" \o Flat(cs) \o ")">>

-----------------------------------------------------------------------------
(* Class attributes *)

base_url == "https://www.free-kassa.ru/api.php"
base_form_url == "https://pay.freekassa.ru/"
wallet_api_url == "https://www.fkwallet.ru/api_v1.php"
None == "None"

-----------------------------------------------------------------------------
(* Signing.  A signing result is [exc, val, sep]: the exception raised or  *)
(* the digest, and the separator the signed string was joined with.        *)

Signed(r, sep) == [exc |-> r.exc, val |-> r.val, sep |-> sep]

(* joins with no separator *)
make_hash_nosep(params, sep) ==
    LET j == Join(<<>>, params)
    IN  IF j.exc # "" THEN Signed(j, sep)
        ELSE Signed(Return(PyStr(Md5Hex(j.val.s))), sep)

make_hash(params, sep) ==
    LET j == Join(sep, params)
    IN  IF j.exc # "" THEN Signed(j, sep)
        ELSE Signed(Return(PyStr(Md5Hex(j.val.s))), sep)

generate_api_signature(c) ==
    Signed(Return(PyStr(Md5Hex(str(c.merchant_id) \o str(c.second_secret)))), <<>>)

generate_wallet_signature(c) ==
    LET a == Add(c.wallet_id, c.wallet_api_key)
    IN  IF a.exc # "" THEN Signed(a, <<>>)
        ELSE Signed(Return(PyStr(Md5Hex(str(a.val)))), <<>>)

(* amount and order_id in each other's place *)
generate_form_signature_swapped(c, amount, order_id, currency) ==
    make_hash(<<PyStr(str(c.merchant_id)), PyStr(str(order_id)),
                PyStr(str(c.first_secret)), PyStr(str(currency)),
                PyStr(str(amount))>>, <<":">>)

generate_form_signature(c, amount, order_id, currency) ==
    make_hash(<<PyStr(str(c.merchant_id)), PyStr(str(amount)),
                PyStr(str(c.first_secret)), PyStr(str(currency)),
                PyStr(str(order_id))>>, <<":">>)

-----------------------------------------------------------------------------
(* urllib.parse.urlencode(params): quote_plus(k) = quote_plus(str(v)) pairs *)
(* joined with '&'.  A dict key is one token of safe characters.            *)

quote_plus_char(ch) ==
    CASE ch = " " -> <<"+">>
      [] ch = "&" -> <<"%", "2", "6">>
      [] ch = "=" -> <<"%", "3", "D">>
      [] ch = "+" -> <<"%", "2", "B">>
      [] ch = "%" -> <<"%", "2", "5">>
      [] ch = ":" -> <<"%", "3", "A">>
      [] ch = "@" -> <<"%", "4", "0">>
      [] ch = "?" -> <<"%", "3", "F">>
      [] ch = "/" -> <<"%", "2", "F">>
      [] ch = "#" -> <<"%", "2", "3">>
      [] OTHER -> <<ch>>

(* no character is escaped *)
quote_plus_raw(cs) == cs

RECURSIVE quote_plus(_)
quote_plus(cs) ==
    IF Len(cs) = 0 THEN <<>> ELSE quote_plus_char(cs[1]) \o quote_plus(Tail(cs))

RECURSIVE urlencode(_)
urlencode(params) ==
    IF Len(params) = 0 THEN <<>>
    ELSE LET k == quote_plus(<<params[1][1]>>)
             v == quote_plus(str(params[1][2]))
         IN  k \o <<"=">> \o v
               \o (IF Len(params) = 1 THEN <<>> ELSE <<"&">> \o urlencode(Tail(params)))

-----------------------------------------------------------------------------
(* The facade methods.  Each yields the plan of the call: what building    *)
(* the params dict raised, or the params handed to send_request with its   *)
(* url argument, or the value returned without a request, or (kind "call") *)
(* the facade operation awaited for a dict value.                          *)

Lit(x) == PyStr(<<x>>)

Plan(kind, exc, params, url, ret, sep) ==
    [kind |-> kind, exc |-> exc, params |-> params, url |-> url,
     ret |-> ret, sep |-> sep]

Raised(sig) == Plan("raise", sig.exc, <<>>, None, NoValue, sig.sep)

Send(params, url, sig) ==
    IF sig.exc # "" THEN Raised(sig)
    ELSE Plan("send", "", params, url, NoValue, sig.sep)

get_balance(c) ==
    LET s == generate_api_signature(c)
    IN  Send(<< <<"merchant_id", c.merchant_id>>,
                <<"s", s.val>>,
                <<"action", Lit("get_balance")>> >>, None, s)

get_order(c, order_id, int_id) ==
    LET s == generate_api_signature(c)
    IN  Send(<< <<"merchant_id", c.merchant_id>>,
                <<"s", s.val>>,
                <<"action", Lit("check_order_status")>>,
                <<"order_id", order_id>>,
                <<"intid", int_id>> >>, None, s)

export_order(c, status, date_from, date_to, limit, offset) ==
    LET s == generate_api_signature(c)
    IN  Send(<< <<"merchant_id", c.merchant_id>>,
                <<"s", s.val>>,
                <<"action", Lit("get_orders")>>,
                <<"date_from", date_from>>,
                <<"date_to", date_to>>,
                <<"status", status>>,
                <<"limit", limit>>,
                <<"offset", offset>> >>, None, s)

withdraw(c, amount, currency) ==
    LET s == generate_api_signature(c)
    IN  Send(<< <<"merchant_id", c.merchant_id>>,
                <<"currency", currency>>,
                <<"amount", amount>>,
                <<"s", s.val>>,
                <<"action", Lit("payment")>> >>, None, s)

invoice(c, email, amount, description) ==
    LET s == generate_api_signature(c)
    IN  Send(<< <<"merchant_id", c.merchant_id>>,
                <<"email", email>>,
                <<"amount", amount>>,
                <<"desc", description>>,
                <<"s", s.val>>,
                <<"action", Lit("create_bill")>> >>, None, s)

(* get_wallet_balance up to the value of 'action', which is the awaited    *)
(* self.get_balance()                                                       *)
get_wallet_balance(c) ==
    LET s == generate_wallet_signature(c)
    IN  IF s.exc # "" THEN Raised(s)
        ELSE Plan("call", "", << <<"wallet_id", c.wallet_id>>,
                                 <<"sign", s.val>> >>,
                  wallet_api_url, NoValue, s.sep)

(* amount and currency in each other's place in the signed list *)
wallet_withdraw_swapped(c, purse, amount, currency, description, disable_exchange) ==
    LET s == make_hash(<<c.wallet_id, amount, currency, purse,
                         c.wallet_api_key>>, <<" ">>)
    IN  Send(<< <<"wallet_id", c.wallet_id>>,
                <<"purse", purse>>,
                <<"amount", amount>>,
                <<"desc", description>>,
                <<"disable_exchange", disable_exchange>>,
                <<"currency", currency>>,
                <<"action", Lit("cashout")>>,
                <<"sign", s.val>> >>, wallet_api_url, s)

wallet_withdraw(c, purse, amount, currency, description, disable_exchange) ==
    LET s == make_hash(<<c.wallet_id, currency, amount, purse,
                         c.wallet_api_key>>, <<" ">>)
    IN  Send(<< <<"wallet_id", c.wallet_id>>,
                <<"purse", purse>>,
                <<"amount", amount>>,
                <<"desc", description>>,
                <<"disable_exchange", disable_exchange>>,
                <<"currency", currency>>,
                <<"action", Lit("cashout")>>,
                <<"sign", s.val>> >>, wallet_api_url, s)

get_operation_status(c, payment_id) ==
    LET s == make_hash(<<c.wallet_id, payment_id, c.wallet_api_key>>, <<" ">>)
    IN  Send(<< <<"wallet_id", c.wallet_id>>,
                <<"payment_id", payment_id>>,
                <<"sign", s.val>>,
                <<"action", Lit("get_payment_status")>> >>, wallet_api_url, s)

transfer_money(c, purse, amount) ==
    LET s == make_hash(<<c.wallet_id, purse, amount, c.wallet_api_key>>, <<" ">>)
    IN  Send(<< <<"wallet_id", c.wallet_id>>,
                <<"purse", purse>>,
                <<"amount", amount>>,
                <<"sign", s.val>>,
                <<"action", Lit("transfer")>> >>, wallet_api_url, s)

online_payments(c, service_id, account, amount) ==
    LET s == make_hash(<<c.wallet_id, amount, account, c.wallet_api_key>>, <<" ">>)
    IN  Send(<< <<"wallet_id", c.wallet_id>>,
                <<"service_id", service_id>>,
                <<"account", account>>,
                <<"amount", amount>>,
                <<"sign", s.val>>,
                <<"action", Lit("online_payment")>> >>, wallet_api_url, s)

get_online_services(c) ==
    LET s == generate_wallet_signature(c)
    IN  Send(<< <<"wallet_id", c.wallet_id>>,
                <<"sign", s.val>>,
                <<"action", Lit("providers")>> >>, wallet_api_url, s)

get_online_payment_status(c, payment_id) ==
    LET s == make_hash(<<c.wallet_id, payment_id, c.wallet_api_key>>, <<" ">>)
    IN  Send(<< <<"wallet_id", c.wallet_id>>,
                <<"payment_id", payment_id>>,
                <<"sign", s.val>>,
                <<"action", Lit("check_online_payment")>> >>, wallet_api_url, s)

create_crypto_address(c, action) ==
    LET s == generate_wallet_signature(c)
    IN  Send(<< <<"wallet_id", c.wallet_id>>,
                <<"sign", s.val>>,
                <<"action", action>> >>, wallet_api_url, s)

create_btc_address(c) == create_crypto_address(c, Lit("create_btc_address"))
create_ltc_address(c) == create_crypto_address(c, Lit("create_ltc_address"))
create_eth_address(c) == create_crypto_address(c, Lit("create_eth_address"))

get_crypto_address(c, action) ==
    LET s == generate_wallet_signature(c)
    IN  Send(<< <<"wallet_id", c.wallet_id>>,
                <<"sign", s.val>>,
                <<"action", action>> >>, wallet_api_url, s)

get_btc_address(c) == get_crypto_address(c, Lit("get_btc_address"))
get_ltc_address(c) == get_crypto_address(c, Lit("get_ltc_address"))
get_eth_address(c) == get_crypto_address(c, Lit("get_eth_address"))

get_transaction(c, action, transaction_id) ==
    LET s == make_hash(<<c.wallet_id, transaction_id, c.wallet_api_key>>, <<" ">>)
    IN  Send(<< <<"wallet_id", c.wallet_id>>,
                <<"transaction_id", transaction_id>>,
                <<"sign", s.val>>,
                <<"action", action>> >>, wallet_api_url, s)

get_btc_transaction(c, transaction_id) ==
    get_transaction(c, Lit("get_btc_transaction"), transaction_id)
get_ltc_transaction(c, transaction_id) ==
    get_transaction(c, Lit("get_ltc_transaction"), transaction_id)
get_eth_transaction(c, transaction_id) ==
    get_transaction(c, Lit("get_eth_transaction"), transaction_id)

generate_payment_link(c, order_id, summ, currency, description, language) ==
    LET s == generate_form_signature(c, summ, order_id, currency)
        params == << <<"o", order_id>>,
                     <<"oa", summ>>,
                     <<"s", s.val>>,
                     <<"m", c.merchant_id>>,
                     <<"currency", currency>>,
                     <<"lang", language>>,
                     <<"pay", Lit("PAY")>>,
                     <<"us_desc", description>> >>
    IN  IF s.exc # "" THEN Raised(s)
        ELSE Plan("value", "", params, None,
                  PyStr(<<base_form_url>> \o <<"?">> \o urlencode(params)), s.sep)

(* A signing method called on its own returns its digest. *)
Digest(sig) ==
    IF sig.exc # "" THEN Raised(sig)
    ELSE Plan("value", "", <<>>, None, sig.val, sig.sep)

-----------------------------------------------------------------------------
(* Inputs *)

Nums == {PyInt(k) : k \in 0..MaxNum}

MerchantIds == {PyStr(<<"1", "2", "3", "4">>), PyInt(7)}
FirstSecrets == {PyStr(<<"f", "s">>), PyStr(<<"s", "e", "c", "r", "e", "t", "2">>)}
SecondSecrets == {PyStr(<<"s", "e", "c", "r", "e", "t", "2">>)}
WalletIds == {PyStr(<<"w", "1">>), PyInt(5)}
WalletApiKeys == {PyStr(<<"k", "1">>), PyStr(<<>>), PyInt(3)}

Amounts ==
    {PyStr(<<"2">>), PyStr(<<"1", " ", "2">>), PyStr(<<"1", "2">>)} \cup Nums
Purses == {PyStr(<<"P">>), PyStr(<<"P", " ", "1">>), PyStr(<<"P", "1">>)}
Currencies == {PyStr(<<"U", "S", "D">>), PyInt(MaxNum)}
Ids == {PyStr(<<"4", "2">>), PyStr(<<"a", " ", "b">>), PyInt(1)}
Accounts == {PyStr(<<"2">>), PyStr(<<"9", "7">>)}
Descriptions ==
    {PyStr(<<>>), PyStr(<<"a", "&", "b", " ", "c">>), PyStr(<<"x", "=", "1">>)}
Emails == {PyStr(<<"a", "@", "b">>)}
Languages == {PyStr(<<"r", "u">>)}
Dates == {PyStr(<<"2", "0", "2", "0">>)}
Statuses == {PyStr(<<"n", "e", "w">>)}
Switches == {PyInt(0), PyInt(1)}
Methods == {"post", "get", "_raise_for_status"}
Urls == {None, wallet_api_url}
SampleParams == << <<"action", Lit("get_balance")>> >>

-----------------------------------------------------------------------------
(* The call in progress *)

MerchantOps == {"get_balance", "get_order", "export_order", "withdraw", "invoice"}
WalletActionOps ==
    {"wallet_withdraw", "get_operation_status", "transfer_money",
     "online_payments", "get_online_payment_status", "get_btc_transaction",
     "get_ltc_transaction", "get_eth_transaction"}
WalletBalanceOps ==
    {"get_wallet_balance", "get_online_services", "create_btc_address",
     "create_ltc_address", "create_eth_address", "get_btc_address",
     "get_ltc_address", "get_eth_address"}
WalletOps == WalletActionOps \cup WalletBalanceOps
ApiOps == MerchantOps \cup WalletOps
SigningOps ==
    {"generate_api_signature", "generate_wallet_signature",
     "generate_form_signature"}

PlanOf(op, a, c) ==
    CASE op = "get_balance" -> get_balance(c)
      [] op = "get_order" -> get_order(c, a[1], a[2])
      [] op = "export_order" -> export_order(c, a[1], a[2], a[3], a[4], a[5])
      [] op = "withdraw" -> withdraw(c, a[1], a[2])
      [] op = "invoice" -> invoice(c, a[1], a[2], a[3])
      [] op = "get_wallet_balance" -> get_wallet_balance(c)
      [] op = "wallet_withdraw" -> wallet_withdraw(c, a[1], a[2], a[3], a[4], a[5])
      [] op = "get_operation_status" -> get_operation_status(c, a[1])
      [] op = "transfer_money" -> transfer_money(c, a[1], a[2])
      [] op = "online_payments" -> online_payments(c, a[1], a[2], a[3])
      [] op = "get_online_services" -> get_online_services(c)
      [] op = "get_online_payment_status" -> get_online_payment_status(c, a[1])
      [] op = "create_btc_address" -> create_btc_address(c)
      [] op = "create_ltc_address" -> create_ltc_address(c)
      [] op = "create_eth_address" -> create_eth_address(c)
      [] op = "get_btc_address" -> get_btc_address(c)
      [] op = "get_ltc_address" -> get_ltc_address(c)
      [] op = "get_eth_address" -> get_eth_address(c)
      [] op = "get_btc_transaction" -> get_btc_transaction(c, a[1])
      [] op = "get_ltc_transaction" -> get_ltc_transaction(c, a[1])
      [] op = "get_eth_transaction" -> get_eth_transaction(c, a[1])
      [] op = "generate_payment_link" ->
            generate_payment_link(c, a[1], a[2], a[3], a[4], a[5])
      [] op = "generate_api_signature" -> Digest(generate_api_signature(c))
      [] op = "generate_wallet_signature" -> Digest(generate_wallet_signature(c))
      [] op = "generate_form_signature" ->
            Digest(generate_form_signature(c, a[1], a[2], a[3]))

(* The frame of a call whose params dict has been evaluated: at "send" it  *)
(* has entered send_request, at "await" it awaits the call on top of it,   *)
(* at "exit" its session is being left, at "raised"/"returned" it is over. *)
Frame(op, a, p, method) ==
    [op |-> op, args |-> a,
     pc |-> CASE p.kind = "raise" -> "raised"
              [] p.kind = "send" -> "send"
              [] p.kind = "call" -> "await"
              [] p.kind = "value" -> "returned",
     exc |-> p.exc, ret |-> p.ret, params |-> p.params, url |-> p.url,
     method |-> method, sep |-> p.sep]

(* What send_request was called with, and how that call ended. *)
Request(f) ==
    [op |-> f.op, url |-> f.url, method |-> f.method, params |-> f.params,
     out |-> "pending"]

Entered(f) == IF f.pc = "send" THEN <<Request(f)>> ELSE <<>>

Tasks == {"main", "peer"}

Init ==
    /\ creds \in [merchant_id : MerchantIds, first_secret : FirstSecrets,
                  second_secret : SecondSecrets, wallet_id : WalletIds,
                  wallet_api_key : WalletApiKeys]
    /\ ctor = creds
    /\ stacks = [t \in Tasks |-> <<>>]
    /\ logs = [t \in Tasks |-> <<>>]
    /\ wires = [t \in Tasks |-> <<>>]

(* the call stores the wallet id back as a string *)
Call_coercing(t, op, a) ==
    /\ stacks[t] = <<>>
    /\ LET f == Frame(op, a, PlanOf(op, a, creds), "post")
           g == Frame("get_balance", <<>>, get_balance(creds), "post")
       IN  IF f.pc = "await"
           THEN /\ stacks' = [stacks EXCEPT ![t] = <<f, g>>]
                /\ logs' = [logs EXCEPT ![t] = Entered(g)]
           ELSE /\ stacks' = [stacks EXCEPT ![t] = <<f>>]
                /\ logs' = [logs EXCEPT ![t] = Entered(f)]
    /\ creds' = [creds EXCEPT !.wallet_id = PyStr(str(creds.wallet_id))]
    /\ UNCHANGED <<ctor, wires>>

(* Task t calls method op with arguments a: the params dict is evaluated,  *)
(* and send_request is entered, or get_balance is for get_wallet_balance.  *)
Call(t, op, a) ==
    /\ stacks[t] = <<>>
    /\ LET f == Frame(op, a, PlanOf(op, a, creds), "post")
           g == Frame("get_balance", <<>>, get_balance(creds), "post")
       IN  IF f.pc = "await"
           THEN /\ stacks' = [stacks EXCEPT ![t] = <<f, g>>]
                /\ logs' = [logs EXCEPT ![t] = Entered(g)]
           ELSE /\ stacks' = [stacks EXCEPT ![t] = <<f>>]
                /\ logs' = [logs EXCEPT ![t] = Entered(f)]
    /\ UNCHANGED <<creds, ctor, wires>>

(* One action per public method: the caller invokes it with its arguments. *)

GetBalance == Call("main", "get_balance", <<>>)

GetOrder == \E order_id \in Ids, int_id \in {PyStr(<<>>), PyInt(1)} :
    Call("main", "get_order", <<order_id, int_id>>)

ExportOrder ==
    \E status \in Statuses, date_from \in Dates, date_to \in Dates,
       limit \in Switches, offset \in {PyInt(0), PyInt(MaxNum)} :
        Call("main", "export_order", <<status, date_from, date_to, limit, offset>>)

Withdraw == \E amount \in Amounts, currency \in Currencies :
    Call("main", "withdraw", <<amount, currency>>)

Invoice == \E email \in Emails, amount \in Amounts, description \in Descriptions :
    Call("main", "invoice", <<email, amount, description>>)

GetWalletBalance == Call("main", "get_wallet_balance", <<>>)

WalletWithdraw ==
    \E purse \in Purses, amount \in Amounts, currency \in Currencies,
       description \in {PyStr(<<>>)}, disable_exchange \in Switches :
        Call("main", "wallet_withdraw",
             <<purse, amount, currency, description, disable_exchange>>)

GetOperationStatus == \E payment_id \in Ids :
    Call("main", "get_operation_status", <<payment_id>>)

TransferMoney == \E purse \in Purses, amount \in Amounts :
    Call("main", "transfer_money", <<purse, amount>>)

OnlinePayments == \E service_id \in {PyInt(1)}, account \in Accounts, amount \in Amounts :
    Call("main", "online_payments", <<service_id, account, amount>>)

GetOnlineServices == Call("main", "get_online_services", <<>>)

GetOnlinePaymentStatus == \E payment_id \in Ids :
    Call("main", "get_online_payment_status", <<payment_id>>)

CreateBtcAddress == Call("main", "create_btc_address", <<>>)
CreateLtcAddress == Call("main", "create_ltc_address", <<>>)
CreateEthAddress == Call("main", "create_eth_address", <<>>)
GetBtcAddress == Call("main", "get_btc_address", <<>>)
GetLtcAddress == Call("main", "get_ltc_address", <<>>)
GetEthAddress == Call("main", "get_eth_address", <<>>)

GetBtcTransaction == \E transaction_id \in Ids :
    Call("main", "get_btc_transaction", <<transaction_id>>)
GetLtcTransaction == \E transaction_id \in Ids :
    Call("main", "get_ltc_transaction", <<transaction_id>>)
GetEthTransaction == \E transaction_id \in Ids :
    Call("main", "get_eth_transaction", <<transaction_id>>)

GeneratePaymentLink ==
    \E order_id \in Ids, summ \in Amounts, currency \in Currencies,
       description \in Descriptions, language \in Languages :
        Call("main", "generate_payment_link",
             <<order_id, summ, currency, description, language>>)

GenerateApiSignature == Call("main", "generate_api_signature", <<>>)
GenerateWalletSignature == Call("main", "generate_wallet_signature", <<>>)
GenerateFormSignature ==
    \E amount \in Amounts, order_id \in Ids, currency \in Currencies :
        Call("main", "generate_form_signature", <<amount, order_id, currency>>)

(* send_request called by the user of the class, with any url and method *)
SendRequest == \E url \in Urls, method \in Methods :
    /\ stacks["main"] = <<>>
    /\ LET f == Frame("send_request", <<>>,
                      Plan("send", "", SampleParams, url, NoValue, <<>>), method)
       IN  /\ stacks' = [stacks EXCEPT !["main"] = <<f>>]
           /\ logs' = [logs EXCEPT !["main"] = Entered(f)]
    /\ UNCHANGED <<creds, ctor, wires>>

(* a second task, running beside the first, calls a method *)
PeerOps == {"get_balance", "get_online_services", "get_wallet_balance"}

PeerCall == \E op \in PeerOps : Call("peer", op, <<>>)

-----------------------------------------------------------------------------
(* send_request: the session's instance namespace, session.__dict__, holds *)
(* what ClientSession.__init__ assigned (private attributes, among them    *)
(* these), not the verbs post, get, ...: those are functions of the class. *)
ClientSessionDict ==
    ("_raise_for_status" :> "bool") @@ ("_connector" :> "object")
        @@ ("_loop" :> "object")

TransportResults == {"ok", "ClientResponseError", "ClientConnectionError"}

Response == [t |-> "response", s |-> <<>>, n |-> 0]

Top(t) == stacks[t][Len(stacks[t])]

SetTop(t, f) == [stacks EXCEPT ![t][Len(stacks[t])] = f]

Ended(t, out) == [logs EXCEPT ![t][Len(logs[t])].out = out]

(* if url is None: url = self.base_url; then, inside the session,          *)
(* session.__dict__[method](url, params=params): KeyError for a name the   *)
(* instance namespace lacks, TypeError for an attribute that is not        *)
(* callable, else the verb issues the request and the transport answers.   *)
SessionCall(t) ==
    /\ stacks[t] # <<>>
    /\ Top(t).pc = "send"
    /\ LET f == Top(t)
           url == IF f.url = None THEN base_url ELSE f.url
       IN  IF f.method \notin DOMAIN ClientSessionDict
           THEN /\ stacks' = SetTop(t, [f EXCEPT !.pc = "exit", !.exc = "KeyError"])
                /\ logs' = Ended(t, "KeyError")
                /\ wires' = wires
           ELSE IF ClientSessionDict[f.method] # "verb"
           THEN /\ stacks' = SetTop(t, [f EXCEPT !.pc = "exit", !.exc = "TypeError"])
                /\ logs' = Ended(t, "TypeError")
                /\ wires' = wires
           ELSE \E r \in TransportResults :
                /\ wires' = [wires EXCEPT ![t] =
                                Append(@, [verb |-> f.method, url |-> url,
                                           params |-> f.params])]
                /\ logs' = Ended(t, r)
                /\ stacks' = SetTop(t, IF r = "ok"
                                       THEN [f EXCEPT !.pc = "exit", !.ret = Response]
                                       ELSE [f EXCEPT !.pc = "exit", !.exc = r])
    /\ UNCHANGED <<creds, ctor>>

(* leaving "async with": the session is closed, then the exception goes on *)
(* to the caller or the value is returned                                   *)
SessionExit(t) ==
    /\ stacks[t] # <<>>
    /\ Top(t).pc = "exit"
    /\ stacks' = SetTop(t, [Top(t) EXCEPT !.pc = IF Top(t).exc # "" THEN "raised"
                                                 ELSE "returned"])
    /\ UNCHANGED <<creds, ctor, logs, wires>>

Over(f) == f.pc \in {"raised", "returned"}

(* the exception of the awaited get_balance() is swallowed *)
Resume_swallow(t) ==
    /\ Len(stacks[t]) = 2
    /\ Over(stacks[t][2])
    /\ LET f == stacks[t][1]
           g == stacks[t][2]
           h == [f EXCEPT !.pc = "send",
                          !.params = f.params \o << <<"action", g.ret>> >>]
       IN  /\ stacks' = [stacks EXCEPT ![t] = <<h>>]
           /\ logs' = [logs EXCEPT ![t] = Append(@, Request(h))]
    /\ UNCHANGED <<creds, ctor, wires>>

(* get_wallet_balance after the awaited get_balance(): its exception is    *)
(* not caught; its value becomes 'action' and the dict goes to             *)
(* send_request with the wallet url                                        *)
Resume(t) ==
    /\ Len(stacks[t]) = 2
    /\ Over(stacks[t][2])
    /\ LET f == stacks[t][1]
           g == stacks[t][2]
           h == [f EXCEPT !.pc = "send",
                          !.params = f.params \o << <<"action", g.ret>> >>]
       IN  IF g.exc # ""
           THEN /\ stacks' = [stacks EXCEPT ![t] =
                                <<[f EXCEPT !.pc = "raised", !.exc = g.exc]>>]
                /\ logs' = logs
           ELSE /\ stacks' = [stacks EXCEPT ![t] = <<h>>]
                /\ logs' = [logs EXCEPT ![t] = Append(@, Request(h))]
    /\ UNCHANGED <<creds, ctor, wires>>

(* the caller has the outcome of its call *)
Finish(t) ==
    /\ Len(stacks[t]) = 1
    /\ Over(stacks[t][1])
    /\ stacks' = [stacks EXCEPT ![t] = <<>>]
    /\ logs' = [logs EXCEPT ![t] = <<>>]
    /\ wires' = [wires EXCEPT ![t] = <<>>]
    /\ UNCHANGED <<creds, ctor>>

Next ==
    \/ GetBalance \/ GetOrder \/ ExportOrder \/ Withdraw \/ Invoice
    \/ GetWalletBalance \/ WalletWithdraw \/ GetOperationStatus
    \/ TransferMoney \/ OnlinePayments \/ GetOnlineServices
    \/ GetOnlinePaymentStatus
    \/ CreateBtcAddress \/ CreateLtcAddress \/ CreateEthAddress
    \/ GetBtcAddress \/ GetLtcAddress \/ GetEthAddress
    \/ GetBtcTransaction \/ GetLtcTransaction \/ GetEthTransaction
    \/ GeneratePaymentLink
    \/ GenerateApiSignature \/ GenerateWalletSignature \/ GenerateFormSignature
    \/ SendRequest
    \/ SessionCall("main") \/ SessionExit("main") \/ Resume("main")
    \/ Finish("main")

(* One task making one call after another. *)
Spec == Init /\ [][Next]_vars

PeerNext ==
    \/ PeerCall
    \/ SessionCall("peer") \/ SessionExit("peer") \/ Resume("peer")
    \/ Finish("peer")

(* Two tasks on one object, interleaved at every await. *)
SpecConcurrent == Init /\ [][Next \/ PeerNext]_vars

(* The first task's call stack, its calls of send_request, and the         *)
(* requests its session issued.                                            *)
stack == stacks["main"]
sends == logs["main"]
wire == wires["main"]

-----------------------------------------------------------------------------
(* Reading a request back: the value of a key of a params dict, and a      *)
(* query string parsed into its (key, value) pairs, blank values kept.     *)

Value(params, k) ==
    params[CHOOSE i \in 1..Len(params) : params[i][1] = k][2]

Index(cs, d) ==
    IF \E i \in 1..Len(cs) : cs[i] = d
    THEN CHOOSE i \in 1..Len(cs) : cs[i] = d /\ \A j \in 1..(i - 1) : cs[j] # d
    ELSE 0

RECURSIVE Split(_, _)
Split(cs, d) ==
    LET i == Index(cs, d)
    IN  IF i = 0 THEN <<cs>>
        ELSE <<SubSeq(cs, 1, i - 1)>> \o Split(SubSeq(cs, i + 1, Len(cs)), d)

Escaped == {" ", "&", "=", "+", "%", ":", "@", "?", "/", "#"}

RECURSIVE Unquote(_)
Unquote(cs) ==
    IF Len(cs) = 0 THEN <<>>
    ELSE IF cs[1] = "+" THEN <<" ">> \o Unquote(Tail(cs))
    ELSE IF cs[1] = "%" /\ Len(cs) >= 3
            /\ \E ch \in Escaped : quote_plus_char(ch) = SubSeq(cs, 1, 3)
         THEN <<CHOOSE ch \in Escaped : quote_plus_char(ch) = SubSeq(cs, 1, 3)>>
                \o Unquote(SubSeq(cs, 4, Len(cs)))
    ELSE <<cs[1]>> \o Unquote(Tail(cs))

ParsePair(cs) ==
    LET i == Index(cs, "=")
    IN  IF i = 0 THEN <<Unquote(cs), <<>> >>
        ELSE <<Unquote(SubSeq(cs, 1, i - 1)), Unquote(SubSeq(cs, i + 1, Len(cs)))>>

ParseQuery(cs) ==
    LET parts == Split(cs, "&") IN [i \in 1..Len(parts) |-> ParsePair(parts[i])]

Parsed(q, k) == q[CHOOSE i \in 1..Len(q) : q[i][1] = <<k>>][2]

LinkKeys == {"o", "oa", "s", "m", "currency", "lang", "pay", "us_desc"}

(* the call whose outcome the caller sees *)
Done == Len(stack) = 1 /\ Over(stack[1])

LinkReturned ==
    Done /\ stack[1].op = "generate_payment_link" /\ stack[1].pc = "returned"

LinkQuery == LET u == stack[1].ret.s IN ParseQuery(SubSeq(u, 3, Len(u)))

Resolved(url) == IF url = None THEN base_url ELSE url

Failed(r) == r.out \notin {"pending", "ok"}

-----------------------------------------------------------------------------
(* C1: in the params a wallet-action operation hands to send_request,      *)
(* 'sign' is the digest of the space-joined list, in the order of the      *)
(* table, of the wallet id, the transmitted fields and the wallet api key. *)

TableFields(r) ==
    LET P(k) == Value(r.params, k)
    IN  CASE r.op = "wallet_withdraw" ->
                <<P("wallet_id"), P("currency"), P("amount"), P("purse"),
                  creds.wallet_api_key>>
          [] r.op = "transfer_money" ->
                <<P("wallet_id"), P("purse"), P("amount"), creds.wallet_api_key>>
          [] r.op = "online_payments" ->
                <<P("wallet_id"), P("amount"), P("account"), creds.wallet_api_key>>
          [] r.op \in {"get_operation_status", "get_online_payment_status"} ->
                <<P("wallet_id"), P("payment_id"), creds.wallet_api_key>>
          [] OTHER ->
                <<P("wallet_id"), P("transaction_id"), creds.wallet_api_key>>

SpaceJoined(fields) ==
    Concat(<<" ">>, [i \in 1..Len(fields) |-> str(fields[i])])

C1_WalletActionSign ==
    \A i \in 1..Len(sends) :
        sends[i].op \in WalletActionOps =>
            /\ Value(sends[i].params, "wallet_id") = creds.wallet_id
            /\ Value(sends[i].params, "sign")
                 = PyStr(Md5Hex(SpaceJoined(TableFields(sends[i]))))

C1_Witness ==
    /\ sends # <<>>
    /\ sends[1].op = "wallet_withdraw"
    /\ Value(sends[1].params, "sign")
         = PyStr(Md5Hex(<<"w", "1", " ", "U", "S", "D", " ", "1", "2", " ",
                          "P", "1", " ", "k", "1">>))

-----------------------------------------------------------------------------
(* C2: the 's' of a returned payment link is the digest of merchant id,    *)
(* amount, first secret, currency and order id joined with ':', where      *)
(* amount, order id and currency are what the link transmits as oa, o and  *)
(* currency; no other operation signs with ':' or depends on first_secret. *)

FormOps == {"generate_payment_link", "generate_form_signature"}

C2_FormSignature ==
    /\ LinkReturned =>
        LET q == LinkQuery
            a == stack[1].args
        IN  /\ Parsed(q, "o") = str(a[1])
            /\ Parsed(q, "oa") = str(a[2])
            /\ Parsed(q, "currency") = str(a[3])
            /\ Parsed(q, "s")
                 = Md5Hex(Concat(<<":">>,
                       <<str(creds.merchant_id), Parsed(q, "oa"),
                         str(creds.first_secret), Parsed(q, "currency"),
                         Parsed(q, "o")>>))
    /\ \A i \in 1..Len(stack) :
        stack[i].op \in (ApiOps \cup SigningOps) \ FormOps =>
            /\ stack[i].sep # <<":">>
            /\ \A fs \in FirstSecrets :
                 PlanOf(stack[i].op, stack[i].args,
                        [creds EXCEPT !.first_secret = fs])
                   = PlanOf(stack[i].op, stack[i].args, creds)

C2_Witness ==
    /\ LinkReturned
    /\ stack[1].args[1] = PyInt(1)
    /\ stack[1].args[2] = PyInt(10)
    /\ Parsed(LinkQuery, "s")
         = Md5Hex(<<"7", ":", "1", "0", ":", "f", "s", ":", "U", "S", "D", ":", "1">>)

-----------------------------------------------------------------------------
(* C3: generate_payment_link hands nothing to send_request and returns the *)
(* form base url, '?', and a query that parses back to exactly the keys    *)
(* o, oa, s, m, currency, lang, pay, us_desc, with pay = PAY and us_desc   *)
(* the description, whatever characters the description holds.             *)

C3_PaymentLink ==
    (stack # <<>> /\ stack[1].op = "generate_payment_link") =>
        /\ stack[1].pc = "returned"
        /\ sends = <<>>
        /\ wire = <<>>
        /\ LET u == stack[1].ret.s
               q == LinkQuery
           IN  /\ u[1] = base_form_url
               /\ u[2] = "?"
               /\ Len(q) = Cardinality(LinkKeys)
               /\ {q[i][1] : i \in 1..Len(q)} = {<<k>> : k \in LinkKeys}
               /\ Parsed(q, "pay") = <<"PAY">>
               /\ Parsed(q, "us_desc") = str(stack[1].args[4])

C3_Witness ==
    /\ LinkReturned
    /\ stack[1].args[4] = PyStr(<<"a", "&", "b", " ", "c">>)
    /\ Parsed(LinkQuery, "us_desc") = <<"a", "&", "b", " ", "c">>

-----------------------------------------------------------------------------
(* C4: the 'action' of every request a facade operation makes is one of    *)
(* the fixed operation names, and no operation awaits another operation    *)
(* to obtain it.                                                           *)

ActionNames ==
    {"get_balance", "check_order_status", "get_orders", "payment",
     "create_bill", "cashout", "get_payment_status", "transfer",
     "online_payment", "providers", "check_online_payment",
     "create_btc_address", "create_ltc_address", "create_eth_address",
     "get_btc_address", "get_ltc_address", "get_eth_address",
     "get_btc_transaction", "get_ltc_transaction", "get_eth_transaction"}

C4_ActionIsLiteral ==
    /\ \A i \in 1..Len(sends) :
        sends[i].op \in ApiOps =>
            Value(sends[i].params, "action") \in {Lit(x) : x \in ActionNames}
    /\ \A i \in 1..Len(stack) : stack[i].pc # "await"

-----------------------------------------------------------------------------
(* C5: with credentials and fields that are strings or numbers, no signing *)
(* raises: no method of the class ends in a TypeError of its own.          *)

C5_SigningNeverFails ==
    \A i \in 1..Len(stack) :
        stack[i].op # "send_request" => stack[i].exc # "TypeError"

-----------------------------------------------------------------------------
(* C6: two field lists of the same wallet-action operation have the same   *)
(* digest exactly when they are the same list.                             *)

SignedFields(op, a, c) ==
    CASE op = "wallet_withdraw" -> <<c.wallet_id, a[3], a[2], a[1], c.wallet_api_key>>
      [] op = "transfer_money" -> <<c.wallet_id, a[1], a[2], c.wallet_api_key>>
      [] op = "online_payments" -> <<c.wallet_id, a[3], a[2], c.wallet_api_key>>
      [] OTHER -> <<c.wallet_id, a[1], c.wallet_api_key>>

ArgsOf(op) ==
    CASE op = "wallet_withdraw" ->
            {<<p, a, c, PyStr(<<>>), PyInt(1)>> :
                p \in Purses, a \in Amounts, c \in Currencies}
      [] op = "transfer_money" -> {<<p, a>> : p \in Purses, a \in Amounts}
      [] op = "online_payments" ->
            {<<PyInt(1), ac, a>> : ac \in Accounts, a \in Amounts}
      [] OTHER -> {<<i>> : i \in Ids}

NoSpace(fields) ==
    \A i \in 1..Len(fields) :
        fields[i].t = "str" /\ \A j \in 1..Len(fields[i].s) : fields[i].s[j] # " "

(* the frame of a wallet-action call that has signed and entered send_request *)
IsSigned(f) == f.op \in WalletActionOps /\ f.pc = "send"

-----------------------------------------------------------------------------
(* C7: a call of send_request that failed is the last one of the facade    *)
(* operation, whose caller gets that failure; get_wallet_balance, when its *)
(* first request fails, makes no request to the wallet url.                *)

C7_FailureSurfaces ==
    /\ \A i \in 1..Len(sends) : Failed(sends[i]) => i = Len(sends)
    /\ (Done /\ sends # <<>> /\ Failed(sends[Len(sends)])) =>
            /\ stack[1].pc = "raised"
            /\ stack[1].exc = sends[Len(sends)].out
    /\ (stack # <<>> /\ stack[1].op = "get_wallet_balance"
          /\ sends # <<>> /\ Failed(sends[1])) =>
            \A i \in 1..Len(sends) : sends[i].url # wallet_api_url

C7_Witness ==
    /\ Done
    /\ stack[1].op = "get_wallet_balance"
    /\ stack[1].exc = "KeyError"
    /\ Len(sends) = 1
    /\ sends[1].op = "get_balance"
    /\ sends[1].out = "KeyError"

-----------------------------------------------------------------------------
(* C8: whatever calls two interleaved tasks have made, and however they   *)
(* ended, the credentials are those the constructor was given.             *)

C8_CredentialsImmutable == creds = ctor

C8_Witness ==
    /\ Done
    /\ stack[1].op = "get_online_services"
    /\ stack[1].exc = "TypeError"
    /\ ctor.wallet_id = PyInt(5)
    /\ Len(stacks["peer"]) = 1
    /\ Top("peer").op = "get_balance"
    /\ Top("peer").pc = "exit"
    /\ Top("peer").exc = "KeyError"

-----------------------------------------------------------------------------
(* C9: an API operation whose signing succeeded has, when it is over, made *)
(* exactly one request, to the base url of its surface.                    *)

BaseOf(op) == IF op \in MerchantOps THEN base_url ELSE wallet_api_url

C9_OneRequest ==
    (Done /\ stack[1].op \in ApiOps /\ stack[1].exc # "TypeError") =>
        /\ Len(sends) = 1
        /\ Resolved(sends[1].url) = BaseOf(stack[1].op)

-----------------------------------------------------------------------------
(* C10: an API operation that called send_request with the default method *)
(* has, when it is over, had its params posted to its base url, and        *)
(* returns what the transport returned.                                    *)

C10_ReachesTransport ==
    (Done /\ stack[1].op \in ApiOps /\ sends # <<>>) =>
        /\ wire # <<>>
        /\ wire[Len(wire)]
             = [verb |-> "post", url |-> BaseOf(stack[1].op),
                params |-> sends[Len(sends)].params]
        /\ (sends[Len(sends)].out = "ok" =>
                stack[1].pc = "returned" /\ stack[1].ret = Response)

====
